---------------------------- MODULE Spec2Model ----------------------------
(***************************************************************************)
(* A model of nexus-llm: the client factory (nexus_llm/factory.py) over    *)
(* the validated settings (nexus_llm/config.py), the message assembly of   *)
(* the LLM interface (simple_llm/llm_interface.py) and the filesystem      *)
(* prompt provider (simple_llm/prompts.py).                                *)
(*                                                                         *)
(* Conventions.  An Optional[T] is a sequence of length at most one:       *)
(* None is <<>> and a value x is <<x>>.  A dotted class path is the        *)
(* sequence of its '.'-separated segments (str.split(".")), so "a.B" is    *)
(* <<"a","B">>, "nodot" is <<"nodot">> and ".Foo" is <<"","Foo">>.  A      *)
(* template or text is a sequence of tokens; the tokens "{" and "}" are    *)
(* the brace characters and every other token is a run of plain text.      *)
(***************************************************************************)
EXTENDS Integers, Sequences, FiniteSets, TLC

VARIABLES
    llm_providers,   \* Settings.llm_providers: provider key -> LLMProviderSettings
    installed,       \* the importable modules of the environment
    validated_settings, \* the settings as load_settings returned them
    called,          \* the provider keys create_client was called with
    last_create,     \* the outcome of the latest create_client call
    n_create,        \* create_client calls made so far
    system_prompt,   \* _build_messages argument
    user_input,      \* _build_messages argument
    human_prompt_template, \* _build_messages argument, Optional
    variables,       \* _build_messages argument, Optional mapping
    few_shot_examples, \* _build_messages argument, Optional list
    built,           \* what _build_messages returned or raised, Optional
    client_log,      \* the invocations the client capability has received
    last_call,       \* the latest LLMInterface call and its outcome
    n_calls,         \* LLMInterface calls made so far
    fs,              \* the filesystem: absolute path -> file or directory
    base_path,       \* FileSystemPromptProvider.base_path
    key,             \* the key of the lookup
    lookup           \* what the lookup returned or raised, Optional

factory_vars ==
    <<llm_providers, installed, validated_settings, called, last_create, n_create>>

assembly_vars ==
    <<system_prompt, user_input, human_prompt_template, variables,
      few_shot_examples, built>>

interface_vars == <<client_log, last_call, n_calls>>

prompt_vars == <<fs, base_path, key, lookup>>

vars == <<factory_vars, assembly_vars, interface_vars, prompt_vars>>

None == <<>>
Some(x) == <<x>>

-----------------------------------------------------------------------------
(* simple_llm/llm_interface.py: message assembly                           *)

(* str.format with keyword arguments kw on a token sequence, read left to right from position  *)
(* i.  "{{" and "}}" are the escaped braces; "{" opens a replacement field *)
(* that runs to the next "}", and the field's text is looked up in kw and  *)
(* inserted as it is; a "{" with no field after it, a "{" inside a field   *)
(* and a lone "}" are ValueErrors, an empty field is an IndexError (no     *)
(* positional arguments are passed), an unknown name is a KeyError.        *)
FieldEnd(t, i) ==
    LET closes == {j \in (i + 1)..Len(t) : t[j] = "}"} IN
    IF closes = {} THEN 0
    ELSE CHOOSE j \in closes : \A c \in closes : j <= c

FormatError(exc) == [exc |-> exc, text |-> <<>>]

RECURSIVE FormatFrom(_, _, _)
FormatFrom(t, i, kw) ==
    IF i > Len(t) THEN [exc |-> "none", text |-> <<>>]
    ELSE IF t[i] = "{" /\ i < Len(t) /\ t[i + 1] = "{" THEN
        LET rest == FormatFrom(t, i + 2, kw) IN
        IF rest.exc # "none" THEN rest
        ELSE [exc |-> "none", text |-> <<"{">> \o rest.text]
    ELSE IF t[i] = "{" THEN
        LET end == FieldEnd(t, i) IN
        IF end = 0 \/ \E j \in (i + 1)..(end - 1) : t[j] = "{"
            THEN FormatError("ValueError")
        ELSE IF end = i + 1 THEN FormatError("IndexError")
        ELSE IF end # i + 2 \/ t[i + 1] \notin DOMAIN kw
            THEN FormatError("KeyError")
        ELSE LET rest == FormatFrom(t, end + 1, kw) IN
            IF rest.exc # "none" THEN rest
            ELSE [exc |-> "none", text |-> kw[t[i + 1]] \o rest.text]
    ELSE IF t[i] = "}" /\ i < Len(t) /\ t[i + 1] = "}" THEN
        LET rest == FormatFrom(t, i + 2, kw) IN
        IF rest.exc # "none" THEN rest
        ELSE [exc |-> "none", text |-> <<"}">> \o rest.text]
    ELSE IF t[i] = "}" THEN FormatError("ValueError")
    ELSE LET rest == FormatFrom(t, i + 1, kw) IN
        IF rest.exc # "none" THEN rest
        ELSE [exc |-> "none", text |-> <<t[i]>> \o rest.text]

Format(t, kw) == FormatFrom(t, 1, kw)

(* llm_interface.py 50: the caller's variables (or an empty mapping) with   *)
(* the key "user_input" added last, so that the argument wins.             *)
OrEmpty(opt_mapping) ==
    IF opt_mapping = None THEN [k \in {} |-> <<>>] ELSE opt_mapping[1]

(* A merge in which the caller's own "user_input" entry wins.              *)
all_vars_CallerWins(vars_, user_input_) ==
    LET given == OrEmpty(vars_) IN
    [k \in DOMAIN given \cup {"user_input"} |->
        IF k \in DOMAIN given THEN given[k] ELSE user_input_]

all_vars(vars_, user_input_) ==
    LET given == OrEmpty(vars_) IN
    [k \in DOMAIN given \cup {"user_input"} |->
        IF k = "user_input" THEN user_input_ ELSE given[k]]

SystemMessage(content) == [role |-> "System", content |-> content]
HumanMessage(content) == [role |-> "Human", content |-> content]
AIMessage(content) == [role |-> "AI", content |-> content]

(* A loop that appends the assistant turn before the user turn.           *)
RECURSIVE ExampleMessages_Swapped(_, _, _)
ExampleMessages_Swapped(examples, i, kw) ==
    IF i > Len(examples) THEN [exc |-> "none", messages |-> <<>>]
    ELSE LET user == Format(examples[i].user, kw)
             assistant == Format(examples[i].assistant, kw)
             rest == ExampleMessages_Swapped(examples, i + 1, kw)
         IN IF user.exc # "none" THEN [exc |-> user.exc, messages |-> <<>>]
            ELSE IF assistant.exc # "none"
                THEN [exc |-> assistant.exc, messages |-> <<>>]
            ELSE IF rest.exc # "none" THEN rest
            ELSE [exc |-> "none",
                  messages |-> <<AIMessage(assistant.text),
                                 HumanMessage(user.text)>> \o rest.messages]

(* llm_interface.py 55-62: the few-shot messages for examples i, i+1, ...  *)
(* in the list's order; the first formatting error ends the loop.         *)
RECURSIVE ExampleMessages(_, _, _)
ExampleMessages(examples, i, kw) ==
    IF i > Len(examples) THEN [exc |-> "none", messages |-> <<>>]
    ELSE LET user == Format(examples[i].user, kw) IN
        IF user.exc # "none" THEN [exc |-> user.exc, messages |-> <<>>]
        ELSE LET assistant == Format(examples[i].assistant, kw) IN
            IF assistant.exc # "none"
                THEN [exc |-> assistant.exc, messages |-> <<>>]
            ELSE LET rest == ExampleMessages(examples, i + 1, kw) IN
                IF rest.exc # "none" THEN rest
                ELSE [exc |-> "none",
                      messages |-> <<HumanMessage(user.text),
                                     AIMessage(assistant.text)>> \o rest.messages]

(* llm_interface.py 64-67: a template that is None or "" is falsy.         *)
FinalHumanContent(template, user_input_, kw) ==
    IF template # None /\ template[1] # <<>>
        THEN Format(template[1], kw)
        ELSE [exc |-> "none", text |-> user_input_]

(* llm_interface.py 41-70, LLMInterface._build_messages                    *)
_build_messages(system_prompt_, user_input_, template, vars_, examples) ==
    LET kw == all_vars(vars_, user_input_)
        sys == Format(system_prompt_, kw)
    IN IF sys.exc # "none" THEN [exc |-> sys.exc, messages |-> <<>>]
       ELSE LET shots == IF examples # None /\ examples[1] # <<>>
                            THEN ExampleMessages(examples[1], 1, kw)
                            ELSE [exc |-> "none", messages |-> <<>>]
            IN IF shots.exc # "none" THEN [exc |-> shots.exc, messages |-> <<>>]
               ELSE LET final == FinalHumanContent(template, user_input_, kw) IN
                   IF final.exc # "none"
                       THEN [exc |-> final.exc, messages |-> <<>>]
                   ELSE [exc |-> "none",
                         messages |-> <<SystemMessage(sys.text)>> \o shots.messages
                                      \o <<HumanMessage(final.text)>>]

(* The arguments a caller may pass.                                        *)
MaxTplLen == 3
MaxExamples == 2

Tokens == {"{", "}", "user_input", "name"}
Templates == UNION {[1..n -> Tokens] : n \in 0..MaxTplLen}
UserInputs == { <<"Bob">>, <<"{", "Bob">> }
HumanTemplates ==
    { None, Some(<<>>), Some(<<"Q:", "{", "user_input", "}">>),
      Some(<<"{", "name", "}">>) }
VariableMappings ==
    { None, Some([k \in {} |-> <<>>]),
      Some([k \in {"name"} |-> <<"Ann">>]),
      Some([k \in {"name", "user_input"} |->
               IF k = "name" THEN <<"Ann">> ELSE <<"Eve">>]) }
ExamplePool ==
    { [user |-> <<"{", "name", "}">>, assistant |-> <<"A1">>],
      [user |-> <<"Q2">>, assistant |-> <<"{", "user_input", "}">>] }
ExampleLists ==
    {None} \cup {Some(l) : l \in UNION {[1..n -> ExamplePool] : n \in 0..MaxExamples}}

-----------------------------------------------------------------------------
(* simple_llm/prompts.py: FileSystemPromptProvider                         *)
(*                                                                         *)
(* A path is the sequence of its components below the root "/"; a key is   *)
(* the string the caller passes, given as whether it starts with "/" and   *)
(* the components between its slashes.                                     *)

(* pathlib's parsing of a key: "." and empty components are dropped, ".."  *)
(* is kept.                                                                *)
PathParts(components) == SelectSeq(components, LAMBDA c : c \notin {".", ""})

(* base_path.joinpath(key): an absolute key replaces the base.             *)
JoinPath(base, k) ==
    IF k.absolute THEN PathParts(k.parts) ELSE base \o PathParts(k.parts)

(* Path.resolve() on a tree without symbolic links: ".." steps to the      *)
(* parent, and the parent of the root is the root.                         *)
RECURSIVE Resolve(_)
Resolve(path) ==
    IF path = <<>> THEN <<>>
    ELSE LET front == Resolve(SubSeq(path, 1, Len(path) - 1))
             last == path[Len(path)]
         IN IF last = ".."
                THEN IF front = <<>> THEN <<>>
                     ELSE SubSeq(front, 1, Len(front) - 1)
                ELSE front \o <<last>>

is_file(files, path) == path \in DOMAIN files /\ files[path].kind = "file"
is_dir(files, path) ==
    path = <<>> \/ (path \in DOMAIN files /\ files[path].kind = "dir")

Found(value, steps) == [exc |-> "none", value |-> Some(value), steps |-> steps]
Failed(exc, steps) == [exc |-> exc, value |-> None, steps |-> steps]

(* A check that looks at the key's first component only.                  *)
_resolve_path_FirstPartOnly(files, base, k) ==
    IF PathParts(k.parts) # <<>> /\ PathParts(k.parts)[1] = ".."
        THEN Failed("ValueError", <<>>)
    ELSE LET resource_path == Resolve(JoinPath(base, k)) IN
        IF ~is_file(files, resource_path)
            THEN Failed("TemplateNotFoundError", <<"resolve", "is_file">>)
            ELSE Found(resource_path, <<"resolve", "is_file">>)

(* prompts.py 51-63, FileSystemPromptProvider._resolve_path                *)
_resolve_path(files, base, k) ==
    IF \E i \in 1..Len(PathParts(k.parts)) : PathParts(k.parts)[i] = ".."
        THEN Failed("ValueError", <<>>)
    ELSE LET resource_path == Resolve(JoinPath(base, k)) IN
        IF ~is_file(files, resource_path)
            THEN Failed("TemplateNotFoundError", <<"resolve", "is_file">>)
            ELSE Found(resource_path, <<"resolve", "is_file">>)

(* prompts.py 65-77: get_template and aget_template                        *)
get_template(files, base, k) ==
    LET path == _resolve_path(files, base, k) IN
    IF path.exc # "none" THEN path
    ELSE Found(files[path.value[1]].content, path.steps \o <<"read">>)

(* prompts.py 79-101: get_few_shot_examples and aget_few_shot_examples;    *)
(* text that is not JSON and JSON that is not a list are ValueErrors.      *)
get_few_shot_examples(files, base, k) ==
    LET content == get_template(files, base, k) IN
    IF content.exc # "none" THEN content
    ELSE IF content.value[1].json # "list" THEN Failed("ValueError", content.steps)
    ELSE Found(content.value[1].examples, content.steps)

-----------------------------------------------------------------------------
(* simple_llm/llm_interface.py: the six calls of LLMInterface              *)

(* What the client capability can do when called: return or raise.         *)
ClientOutcomes == {"ok", "raise"}

Invocation(method, structured, messages) ==
    [method |-> method, structured |-> structured, messages |-> messages]

Outcome(calls, exc, value) == [calls |-> calls, exc |-> exc, value |-> value]

(* A delegation that tries the client once more after it raised.           *)
ClientInvoke_Retry(method, structured, messages, reply, invoked) ==
    IF invoked = "ok"
        THEN Outcome(<<Invocation(method, structured, messages)>>, "none",
                     Some(reply))
        ELSE Outcome(<<Invocation(method, structured, messages),
                       Invocation(method, structured, messages)>>,
                     "ClientError", None)

(* llm_interface.py 102, 122, 153, 174, 187, 191: one call of the client's *)
(* invoke or ainvoke; what it raises is not caught.                        *)
ClientInvoke(method, structured, messages, reply, invoked) ==
    IF invoked = "ok"
        THEN Outcome(<<Invocation(method, structured, messages)>>, "none",
                     Some(reply))
        ELSE Outcome(<<Invocation(method, structured, messages)>>,
                     "ClientError", None)

TextReply == <<"reply">>
StructuredReply == [model |-> "response_model"]
RawReply == AIMessage(TextReply)

(* llm_interface.py 72-123: generate_text and agenerate_text               *)
generate_text(method, assembled, invoked) ==
    IF assembled.exc # "none" THEN Outcome(<<>>, assembled.exc, None)
    ELSE ClientInvoke(method, FALSE, assembled.messages, TextReply, invoked)

(* llm_interface.py 125-174: generate_structured and agenerate_structured; *)
(* with_structured_output is a call of the client too and may raise.       *)
generate_structured(method, assembled, structured, invoked) ==
    IF assembled.exc # "none" THEN Outcome(<<>>, assembled.exc, None)
    ELSE IF structured # "ok" THEN Outcome(<<>>, "ClientError", None)
    ELSE ClientInvoke(method, TRUE, assembled.messages, StructuredReply, invoked)

(* llm_interface.py 176-191: invoke and ainvoke                            *)
invoke(method, messages, invoked) ==
    ClientInvoke(method, FALSE, messages, RawReply, invoked)

NoInterfaceCall ==
    [op |-> "none", messages |-> <<>>, structured |-> "ok", invoked |-> "ok",
     calls |-> <<>>, exc |-> "none", value |-> None, log_before |-> <<>>]

-----------------------------------------------------------------------------
(* nexus_llm/factory.py                                                    *)

BUILT_IN_PROVIDERS ==
    [a \in {"google", "openai", "azure", "anthropic", "groq", "ollama"} |->
        CASE a = "google"    -> <<"langchain_google_genai", "ChatGoogleGenerativeAI">>
          [] a = "openai"    -> <<"langchain_openai", "ChatOpenAI">>
          [] a = "azure"     -> <<"langchain_openai", "AzureChatOpenAI">>
          [] a = "anthropic" -> <<"langchain_anthropic", "ChatAnthropic">>
          [] a = "groq"      -> <<"langchain_groq", "ChatGroq">>
          [] a = "ollama"    -> <<"langchain_ollama", "ChatOllama">>]

(* The environment: the modules that may be importable and the attributes  *)
(* each of them defines.                                                   *)
KnownModules == {<<"langchain_openai">>, <<"mymod">>}

ModuleAttrs(m) ==
    CASE m = <<"langchain_openai">> -> {"ChatOpenAI", "AzureChatOpenAI"}
      [] m = <<"mymod">>            -> {"MyChat"}
      [] OTHER                      -> {}

(* The settings the loader can hand over.                                  *)
ProviderKeys == {"k1", "k2"}
AbsentKey == "absent"
TypeValues == {"google", "openai", "bogus", ""}
ClassPathValues ==
    { <<"langchain_openai", "ChatOpenAI">>,   \* loadable when installed
      <<"mymod", "Missing">>,                 \* symbol missing from module
      <<"nomod", "X">>,                       \* module never importable
      <<"nodot">>,                            \* no '.' separator
      <<"", "Foo">>,                          \* ".Foo": empty module part
      <<"", "", "Foo">> }                     \* "..Foo": relative module
ParamValues == { {}, {<<"model", "x">>} }

LLMProviderSettings ==
    [type : {None} \cup {Some(t) : t \in TypeValues},
     class_path : {None} \cup {Some(p) : p \in ClassPathValues},
     params : ParamValues]

(* A validator that forgets the "neither" check.                          *)
check_exclusive_AllowsNeither(c) ==
    ~(c.type # None /\ c.class_path # None)

(* config.py, the model validator: it raises when both or neither field is *)
(* given (is not None / is None), and such settings are never built.       *)
check_type_or_class_path_exclusive(c) ==
    /\ ~(c.type # None /\ c.class_path # None)
    /\ ~(c.type = None /\ c.class_path = None)

ValidatedProviderSettings ==
    {c \in LLMProviderSettings : check_type_or_class_path_exclusive(c)}

(* Python truthiness of an Optional[str]: None and "" are falsy.           *)
Truthy(opt) == opt # None /\ opt[1] # ""

(* str.rsplit(".", 1) on the segment form: one piece when there is no '.', *)
(* else the module part and the last segment.                              *)
RSplitDot(segs) ==
    IF Len(segs) = 1
        THEN <<segs>>
        ELSE <<SubSeq(segs, 1, Len(segs) - 1), <<segs[Len(segs)]>> >>

(* importlib.import_module(name): "" is a ValueError, a leading '.' is a   *)
(* relative import without a package (TypeError), a module that is not     *)
(* importable is an ImportError.                                           *)
import_module(name, env) ==
    IF name = <<"">> THEN [exc |-> "ValueError", module |-> None]
    ELSE IF name[1] = "" THEN [exc |-> "TypeError", module |-> None]
    ELSE IF name \in env THEN [exc |-> "none", module |-> Some(name)]
    ELSE [exc |-> "ImportError", module |-> None]

(* getattr(module, class_name)                                             *)
getattr(module, class_name) ==
    IF class_name \in ModuleAttrs(module)
        THEN [exc |-> "none", class |-> Some(<<module, class_name>>)]
        ELSE [exc |-> "AttributeError", class |-> None]

NoMessage ==
    [kind |-> "none", provider_key |-> None, listed |-> {}, class_path |-> None,
     type |-> None]

Returned(client, steps) ==
    [exc |-> "none", msg |-> NoMessage, cause |-> "none", steps |-> steps,
     client |-> Some(client)]

Raised(exc, msg, cause, steps) ==
    [exc |-> exc, msg |-> msg, cause |-> cause, steps |-> steps, client |-> None]

(* A message that leaves the available keys out.                          *)
ProviderNotFoundMessage_NoKeys(provider_key, providers) ==
    [kind |-> "provider_not_found", provider_key |-> Some(provider_key),
     listed |-> {}, class_path |-> None, type |-> None]

(* factory.py 53-58                                                        *)
ProviderNotFoundMessage(provider_key, providers) ==
    [kind |-> "provider_not_found", provider_key |-> Some(provider_key),
     listed |-> DOMAIN providers, class_path |-> None, type |-> None]

(* factory.py 66-70                                                        *)
InvalidTypeMessage(provider_key, config) ==
    [kind |-> "invalid_type", provider_key |-> Some(provider_key),
     listed |-> DOMAIN BUILT_IN_PROVIDERS, class_path |-> None,
     type |-> config.type]

(* factory.py 77-81, 86-90, 92-94; an exception that escapes carries the   *)
(* interpreter's own message, which names neither key nor class path.      *)
ImportFailedMessage(provider_key, config) ==
    [kind |-> "import_failed", provider_key |-> Some(provider_key),
     listed |-> {}, class_path |-> Some(config.class_path), type |-> None]

InstantiateFailedMessage(provider_key, config) ==
    [kind |-> "instantiate_failed", provider_key |-> Some(provider_key),
     listed |-> {}, class_path |-> Some(config.class_path), type |-> None]

UnexpectedMessage(provider_key) ==
    [kind |-> "unexpected", provider_key |-> Some(provider_key),
     listed |-> {}, class_path |-> None, type |-> None]

InterpreterMessage ==
    [kind |-> "interpreter", provider_key |-> None, listed |-> {},
     class_path |-> None, type |-> None]


(* An alias resolution that moves the alias into class_path, clearing     *)
(* type.                                                                   *)
ResolveAlias_ClearsType(provider_config) ==
    IF Truthy(provider_config.type)
        THEN IF provider_config.type[1] \in DOMAIN BUILT_IN_PROVIDERS
                THEN [exc |-> "none", steps |-> <<"resolve_alias">>,
                      config |-> [provider_config EXCEPT
                          !.class_path = Some(BUILT_IN_PROVIDERS[provider_config.type[1]]),
                          !.type = None]]
                ELSE [exc |-> "ConfigurationError", steps |-> <<"resolve_alias">>,
                      config |-> provider_config]
        ELSE [exc |-> "none", steps |-> <<>>, config |-> provider_config]

(* factory.py 62-70: alias resolution.  Entered only when type is truthy;  *)
(* a built-in alias stores the table's path in class_path, in place.       *)
ResolveAlias(provider_config) ==
    IF Truthy(provider_config.type)
        THEN IF provider_config.type[1] \in DOMAIN BUILT_IN_PROVIDERS
                THEN [exc |-> "none", steps |-> <<"resolve_alias">>,
                      config |-> [provider_config EXCEPT
                          !.class_path = Some(BUILT_IN_PROVIDERS[provider_config.type[1]])]]
                ELSE [exc |-> "ConfigurationError", steps |-> <<"resolve_alias">>,
                      config |-> provider_config]
        ELSE [exc |-> "none", steps |-> <<>>, config |-> provider_config]

(* factory.py 73-75: the body of the first try block.  None.rsplit is an   *)
(* AttributeError; unpacking one piece into two names is a ValueError.     *)
LoadClass(class_path, env) ==
    IF class_path = None
        THEN [exc |-> "AttributeError", steps |-> <<>>, class |-> None]
    ELSE LET pieces == RSplitDot(class_path[1]) IN
        IF Len(pieces) # 2
            THEN [exc |-> "ValueError", steps |-> <<>>, class |-> None]
        ELSE LET imp == import_module(pieces[1], env) IN
            IF imp.exc # "none"
                THEN [exc |-> imp.exc, steps |-> <<"import">>, class |-> None]
            ELSE LET got == getattr(imp.module[1], pieces[2][1]) IN
                [exc |-> got.exc, steps |-> <<"import", "getattr">>,
                 class |-> got.class]

(* factory.py 76: the exceptions the first try block catches.              *)
CaughtOnImport == {"ImportError", "AttributeError"}

(* What a constructor call can do: return, raise TypeError (a parameter    *)
(* mismatch), or raise another Exception.                                  *)
CtorOutcomes == {"ok", "TypeError", "Exception"}

(* factory.py 83-94                                                        *)
Instantiate(provider_key, config, class, ctor, steps) ==
    CASE ctor = "ok" ->
            Returned([class |-> class, params |-> config.params], steps)
      [] ctor = "TypeError" ->
            Raised("ConfigurationError",
                   InstantiateFailedMessage(provider_key, config), "TypeError", steps)
      [] OTHER ->
            Raised("ConfigurationError",
                   UnexpectedMessage(provider_key), "Exception", steps)

(* factory.py 35-94, LLMFactory.create_client: the settings after the call *)
(* and what the call returned or raised.                                   *)
create_client(providers, env, provider_key, ctor) ==
    IF provider_key \notin DOMAIN providers
        THEN [providers |-> providers,
              result |-> Raised("ProviderNotFoundError",
                                ProviderNotFoundMessage(provider_key, providers),
                                "none", <<>>)]
    ELSE LET resolved == ResolveAlias(providers[provider_key]) IN
        IF resolved.exc # "none"
            THEN [providers |-> providers,
                  result |-> Raised("ConfigurationError",
                                    InvalidTypeMessage(provider_key, resolved.config),
                                    "none", resolved.steps)]
        ELSE LET provider_config == resolved.config
                 after == [providers EXCEPT ![provider_key] = provider_config]
                 loaded == LoadClass(provider_config.class_path, env)
                 steps == resolved.steps \o loaded.steps
             IN IF loaded.exc \in CaughtOnImport
                    THEN [providers |-> after,
                          result |-> Raised("ConfigurationError",
                                            ImportFailedMessage(provider_key, provider_config),
                                            loaded.exc, steps)]
                ELSE IF loaded.exc # "none"
                    THEN [providers |-> after,
                          result |-> Raised(loaded.exc, InterpreterMessage, "none", steps)]
                ELSE [providers |-> after,
                      result |-> Instantiate(provider_key, provider_config,
                                             loaded.class[1], ctor,
                                             steps \o <<"instantiate">>)]

-----------------------------------------------------------------------------
(* The factory as a state machine: validated settings, then any sequence   *)
(* of create_client calls on them.                                         *)

MaxCreate == 3

NoCall == [key |-> None, before |-> <<>>, result |-> Raised("none", NoMessage, "none", <<>>)]

FactoryInit ==
    /\ \E keys \in SUBSET ProviderKeys :
          llm_providers \in [keys -> ValidatedProviderSettings]
    /\ validated_settings = llm_providers
    /\ installed \in SUBSET KnownModules
    /\ called = {}
    /\ last_create = NoCall
    /\ n_create = 0
    /\ system_prompt = <<>>
    /\ user_input = <<>>
    /\ human_prompt_template = None
    /\ variables = None
    /\ few_shot_examples = None
    /\ built = None
    /\ client_log = <<>>
    /\ last_call = NoInterfaceCall
    /\ n_calls = 0
    /\ fs = <<>>
    /\ base_path = <<>>
    /\ key = [absolute |-> FALSE, parts |-> <<>>]
    /\ lookup = None

CreateClient ==
    /\ n_create < MaxCreate
    /\ \E provider_key \in ProviderKeys \cup {AbsentKey}, ctor \in CtorOutcomes :
          LET r == create_client(llm_providers, installed, provider_key, ctor) IN
          /\ llm_providers' = r.providers
          /\ last_create' = [key |-> Some(provider_key), before |-> llm_providers,
                             result |-> r.result]
          /\ called' = called \cup {provider_key}
    /\ n_create' = n_create + 1
    /\ UNCHANGED <<installed, validated_settings>>
    /\ UNCHANGED <<assembly_vars, interface_vars, prompt_vars>>

FactoryNext == CreateClient

SpecFactory == FactoryInit /\ [][FactoryNext]_vars

-----------------------------------------------------------------------------
(* Properties of the factory                                               *)

CallMade == last_create.key # None
CalledKey == last_create.key[1]
Result == last_create.result

(* C1: a create_client call with a key that is not configured raises       *)
(* ProviderNotFoundError, its message lists every configured key, nothing  *)
(* was resolved, imported or instantiated, and the settings are unchanged. *)
ThmC1 ==
    (CallMade /\ CalledKey \notin DOMAIN last_create.before) =>
        /\ Result.exc = "ProviderNotFoundError"
        /\ Result.msg.kind = "provider_not_found"
        /\ Result.msg.provider_key = Some(CalledKey)
        /\ Result.msg.listed = DOMAIN last_create.before
        /\ Result.steps = <<>>
        /\ Result.client = None
        /\ llm_providers = last_create.before

WitC1 ==
    /\ CallMade
    /\ CalledKey = AbsentKey
    /\ DOMAIN last_create.before = ProviderKeys
    /\ Result.exc = "ProviderNotFoundError"
    /\ n_create = 2

IsBuiltIn(config) ==
    config.type # None /\ config.type[1] \in DOMAIN BUILT_IN_PROVIDERS

(* C2: once create_client has been called for a provider configured with a *)
(* built-in alias, however often and whatever the calls' outcome, its      *)
(* class_path is the table's path for the alias and its alias and params   *)
(* are those of the validated settings.                                    *)
ThmC2 ==
    \A k \in called \cap DOMAIN llm_providers :
        IsBuiltIn(validated_settings[k]) =>
            /\ llm_providers[k].class_path =
                   Some(BUILT_IN_PROVIDERS[validated_settings[k].type[1]])
            /\ llm_providers[k].type = validated_settings[k].type
            /\ llm_providers[k].params = validated_settings[k].params

WitC2 ==
    /\ called = {"k1"}
    /\ n_create = 2
    /\ "k1" \in DOMAIN llm_providers
    /\ validated_settings["k1"].type = Some("openai")
    /\ llm_providers["k1"].class_path = Some(<<"langchain_openai", "ChatOpenAI">>)
    /\ Result.exc = "none"

(* The class path create_client works with: the table's path for a         *)
(* built-in alias, else the configured class_path.                         *)
EffectivePath(config) ==
    IF IsBuiltIn(config)
        THEN Some(BUILT_IN_PROVIDERS[config.type[1]])
        ELSE IF config.type = None THEN config.class_path ELSE None

Loadable(path, env) ==
    /\ Len(path) >= 2
    /\ SubSeq(path, 1, Len(path) - 1) \in env
    /\ path[Len(path)] \in ModuleAttrs(SubSeq(path, 1, Len(path) - 1))

(* C3: a create_client call for a configured key whose class path is not   *)
(* loadable, whatever its shape, raises ConfigurationError naming the key  *)
(* and the class path and wrapping the cause.                              *)
CexC3 ==
    (/\ CallMade
     /\ CalledKey \in DOMAIN last_create.before
     /\ EffectivePath(last_create.before[CalledKey]) # None
     /\ ~Loadable(EffectivePath(last_create.before[CalledKey])[1], installed)) =>
        /\ Result.exc = "ConfigurationError"
        /\ Result.msg.provider_key = Some(CalledKey)
        /\ Result.msg.class_path = Some(EffectivePath(last_create.before[CalledKey]))
        /\ Result.cause # "none"

(* C4: a create_client call for a configured key whose alias is a string   *)
(* outside the built-in table, the empty string included, raises           *)
(* ConfigurationError listing the valid aliases, imports nothing and       *)
(* leaves class_path as it was.                                            *)
CexC4 ==
    (/\ CallMade
     /\ CalledKey \in DOMAIN last_create.before
     /\ last_create.before[CalledKey].type # None
     /\ ~IsBuiltIn(last_create.before[CalledKey])) =>
        /\ Result.exc = "ConfigurationError"
        /\ Result.msg.listed = DOMAIN BUILT_IN_PROVIDERS
        /\ \A i \in 1..Len(Result.steps) : Result.steps[i] # "import"
        /\ llm_providers = last_create.before

ExactlyOne(config) ==
    (config.type # None) # (config.class_path # None)

(* C5 as stated: in every reachable state every provider configuration has *)
(* exactly one of type and class_path set.                                 *)
CexC5 ==
    \A k \in DOMAIN llm_providers : ExactlyOne(llm_providers[k])

(* C5 as amended: the validated settings have exactly one of the two set;  *)
(* after any create_client calls at least one is set, type is as validated *)
(* and both are set only for a built-in alias that create_client resolved, *)
(* class_path then being the table's path for the alias.                   *)
ThmC5 ==
    \A k \in DOMAIN llm_providers :
        LET now == llm_providers[k]
            was == validated_settings[k]
        IN /\ ExactlyOne(was)
           /\ now.type = was.type
           /\ now.type # None \/ now.class_path # None
           /\ now.type = None => now.class_path = was.class_path
           /\ (now.type # None /\ now.class_path # None) =>
                  /\ k \in called
                  /\ IsBuiltIn(was)
                  /\ now.class_path = Some(BUILT_IN_PROVIDERS[was.type[1]])

WitC5 ==
    /\ n_create = 2
    /\ \E k \in DOMAIN llm_providers :
          /\ llm_providers[k].type = Some("google")
          /\ llm_providers[k].class_path # None
    /\ \E k \in DOMAIN llm_providers :
          /\ llm_providers[k].type = Some("")
          /\ llm_providers[k].class_path = None
          /\ k \in called

-----------------------------------------------------------------------------
(* Message assembly as a state machine: the arguments, then the call.      *)

AssemblyInit ==
    /\ system_prompt \in Templates
    /\ user_input \in UserInputs
    /\ human_prompt_template \in HumanTemplates
    /\ variables \in VariableMappings
    /\ few_shot_examples \in ExampleLists
    /\ built = None
    /\ client_log = <<>>
    /\ last_call = NoInterfaceCall
    /\ n_calls = 0
    /\ fs = <<>>
    /\ base_path = <<>>
    /\ key = [absolute |-> FALSE, parts |-> <<>>]
    /\ lookup = None
    /\ llm_providers = <<>>
    /\ installed = {}
    /\ validated_settings = <<>>
    /\ called = {}
    /\ last_create = NoCall
    /\ n_create = 0

BuildMessages ==
    /\ built = None
    /\ built' = Some(_build_messages(system_prompt, user_input,
                                     human_prompt_template, variables,
                                     few_shot_examples))
    /\ UNCHANGED <<system_prompt, user_input, human_prompt_template, variables,
                   few_shot_examples>>
    /\ UNCHANGED <<factory_vars, interface_vars, prompt_vars>>

AssemblyNext == BuildMessages

SpecAssembly == AssemblyInit /\ [][AssemblyNext]_vars

-----------------------------------------------------------------------------
(* Properties of message assembly                                          *)

Built == built # None
Assembled == Built /\ built[1].exc = "none"
KW == all_vars(variables, user_input)
Examples == IF few_shot_examples = None THEN <<>> ELSE few_shot_examples[1]

(* C6: when assembly succeeds with n few-shot examples, the result is the  *)
(* 2n+2 messages System, Human_1, AI_1, ..., Human_n, AI_n, final Human,   *)
(* Human_i and AI_i being the formatted user and assistant templates of    *)
(* the i-th example of the list.                                           *)
ThmC6 ==
    Assembled =>
        LET msgs == built[1].messages
            n == Len(Examples)
        IN /\ Len(msgs) = 2 * n + 2
           /\ msgs[1].role = "System"
           /\ \A i \in 1..n :
                 /\ msgs[2 * i] = HumanMessage(Format(Examples[i].user, KW).text)
                 /\ msgs[2 * i + 1] =
                        AIMessage(Format(Examples[i].assistant, KW).text)
           /\ msgs[2 * n + 2].role = "Human"

WitC6 ==
    /\ Assembled
    /\ Len(Examples) = 2
    /\ Examples[1] # Examples[2]
    /\ Len(built[1].messages) = 6
    /\ built[1].messages[2].content = <<"Ann">>
    /\ built[1].messages[5].content = user_input

Collides == variables # None /\ "user_input" \in DOMAIN variables[1]

WithoutUserInput(mapping) ==
    [k \in DOMAIN mapping \ {"user_input"} |-> mapping[k]]

CexC8 ==
    Assembled =>
        LET msgs == built[1].messages IN
        /\ msgs[Len(msgs)].content =
               IF human_prompt_template # None
                   THEN Format(human_prompt_template[1], KW).text
                   ELSE user_input
        /\ msgs[1].content = Format(system_prompt, KW).text

-----------------------------------------------------------------------------
(* The interface as a state machine: the arguments, then any sequence of   *)
(* calls with them on one LLMInterface.                                    *)

MaxCalls == 2

InterfaceSystemPrompts ==
    { <<"Hi ", "{", "user_input", "}">>, <<"{", "name", "}">>, <<"{">> }
InterfaceExampleLists ==
    { None, Some(<<[user |-> <<"{", "name", "}">>, assistant |-> <<"A1">>]>>) }
CallerMessages ==
    { <<>>, <<HumanMessage(<<"hi">>)>>,
      <<SystemMessage(<<"s">>), HumanMessage(<<"hi">>)>> }

InterfaceInit ==
    /\ system_prompt \in InterfaceSystemPrompts
    /\ user_input = <<"Bob">>
    /\ human_prompt_template \in {None, Some(<<"{", "name", "}">>)}
    /\ variables \in {None, Some([k \in {"name"} |-> <<"Ann">>])}
    /\ few_shot_examples \in InterfaceExampleLists
    /\ built = None
    /\ client_log = <<>>
    /\ last_call = NoInterfaceCall
    /\ n_calls = 0
    /\ fs = <<>>
    /\ base_path = <<>>
    /\ key = [absolute |-> FALSE, parts |-> <<>>]
    /\ lookup = None
    /\ llm_providers = <<>>
    /\ installed = {}
    /\ validated_settings = <<>>
    /\ called = {}
    /\ last_create = NoCall
    /\ n_create = 0

Assembly ==
    _build_messages(system_prompt, user_input, human_prompt_template, variables,
                    few_shot_examples)

CallRecord(op, messages, structured, invoked, out, log) ==
    [op |-> op, messages |-> messages, structured |-> structured,
     invoked |-> invoked, calls |-> out.calls, exc |-> out.exc,
     value |-> out.value, log_before |-> log]

GenerateText ==
    /\ n_calls < MaxCalls
    /\ \E invoked \in ClientOutcomes :
          LET out == generate_text("invoke", Assembly, invoked) IN
          /\ client_log' = client_log \o out.calls
          /\ last_call' = CallRecord("generate_text", <<>>, "ok", invoked, out,
                                     client_log)
    /\ n_calls' = n_calls + 1
    /\ UNCHANGED <<assembly_vars, factory_vars, prompt_vars>>

AGenerateText ==
    /\ n_calls < MaxCalls
    /\ \E invoked \in ClientOutcomes :
          LET out == generate_text("ainvoke", Assembly, invoked) IN
          /\ client_log' = client_log \o out.calls
          /\ last_call' = CallRecord("agenerate_text", <<>>, "ok", invoked, out,
                                     client_log)
    /\ n_calls' = n_calls + 1
    /\ UNCHANGED <<assembly_vars, factory_vars, prompt_vars>>

GenerateStructured ==
    /\ n_calls < MaxCalls
    /\ \E structured \in ClientOutcomes, invoked \in ClientOutcomes :
          LET out == generate_structured("invoke", Assembly, structured, invoked) IN
          /\ client_log' = client_log \o out.calls
          /\ last_call' = CallRecord("generate_structured", <<>>, structured, invoked, out,
                                     client_log)
    /\ n_calls' = n_calls + 1
    /\ UNCHANGED <<assembly_vars, factory_vars, prompt_vars>>

AGenerateStructured ==
    /\ n_calls < MaxCalls
    /\ \E structured \in ClientOutcomes, invoked \in ClientOutcomes :
          LET out == generate_structured("ainvoke", Assembly, structured, invoked) IN
          /\ client_log' = client_log \o out.calls
          /\ last_call' = CallRecord("agenerate_structured", <<>>, structured, invoked, out,
                                     client_log)
    /\ n_calls' = n_calls + 1
    /\ UNCHANGED <<assembly_vars, factory_vars, prompt_vars>>

Invoke ==
    /\ n_calls < MaxCalls
    /\ \E messages \in CallerMessages, invoked \in ClientOutcomes :
          LET out == invoke("invoke", messages, invoked) IN
          /\ client_log' = client_log \o out.calls
          /\ last_call' = CallRecord("invoke", messages, "ok", invoked, out,
                                     client_log)
    /\ n_calls' = n_calls + 1
    /\ UNCHANGED <<assembly_vars, factory_vars, prompt_vars>>

AInvoke ==
    /\ n_calls < MaxCalls
    /\ \E messages \in CallerMessages, invoked \in ClientOutcomes :
          LET out == invoke("ainvoke", messages, invoked) IN
          /\ client_log' = client_log \o out.calls
          /\ last_call' = CallRecord("ainvoke", messages, "ok", invoked, out,
                                     client_log)
    /\ n_calls' = n_calls + 1
    /\ UNCHANGED <<assembly_vars, factory_vars, prompt_vars>>

InterfaceNext ==
    \/ GenerateText
    \/ AGenerateText
    \/ GenerateStructured
    \/ AGenerateStructured
    \/ Invoke
    \/ AInvoke

SpecInterface == InterfaceInit /\ [][InterfaceNext]_vars

-----------------------------------------------------------------------------
(* Properties of the interface's calls                                     *)

TextOps == {"generate_text", "agenerate_text"}
StructuredOps == {"generate_structured", "agenerate_structured"}
RawOps == {"invoke", "ainvoke"}
MethodOf(op) ==
    IF op \in {"generate_text", "generate_structured", "invoke"}
        THEN "invoke" ELSE "ainvoke"

(* What every call satisfies in both readings of C10: the client's log     *)
(* grows by this call's invocations only, invoke and ainvoke forward the   *)
(* caller's messages, an assembly error means no invocation and is the     *)
(* call's error, and a failed invocation is the call's error.              *)
CallBasics ==
    /\ client_log = last_call.log_before \o last_call.calls
    /\ Len(last_call.calls) <= 1
    /\ last_call.op \in RawOps =>
           last_call.calls =
               <<Invocation(MethodOf(last_call.op), FALSE, last_call.messages)>>
    /\ (last_call.op \in TextOps \cup StructuredOps /\ Assembly.exc # "none") =>
           /\ last_call.calls = <<>>
           /\ last_call.exc = Assembly.exc
    /\ (last_call.calls # <<>> /\ last_call.invoked = "raise") =>
           /\ last_call.exc = "ClientError"
           /\ last_call.value = None
    /\ (last_call.calls # <<>> /\ last_call.invoked = "ok") =>
           /\ last_call.exc = "none"
           /\ last_call.value # None

OneInvocation ==
    last_call.calls =
        <<Invocation(MethodOf(last_call.op), last_call.op \in StructuredOps,
                     Assembly.messages)>>

(* C10 as stated: every call makes at most one client invocation, exactly  *)
(* one whenever message assembly succeeds, none when it raises, and a      *)
(* failed invocation is propagated and not tried again.                    *)
CexC10 ==
    last_call.op # "none" =>
        /\ CallBasics
        /\ (last_call.op \in TextOps \cup StructuredOps /\ Assembly.exc = "none")
               => OneInvocation

(* C10 as amended: every call makes at most one client invocation; exactly *)
(* one when message assembly succeeds and, for the structured calls, the   *)
(* client's with_structured_output returns; none when assembly or          *)
(* with_structured_output raises, the error being the call's error; a      *)
(* failed invocation is propagated and not tried again.                    *)
ThmC10 ==
    last_call.op # "none" =>
        /\ CallBasics
        /\ (last_call.op \in TextOps /\ Assembly.exc = "none") => OneInvocation
        /\ (last_call.op \in StructuredOps /\ Assembly.exc = "none") =>
               IF last_call.structured = "ok"
                   THEN OneInvocation
                   ELSE /\ last_call.calls = <<>>
                        /\ last_call.exc = "ClientError"

WitC10 ==
    /\ n_calls = 2
    /\ last_call.op = "generate_text"
    /\ Assembly.exc = "none"
    /\ last_call.invoked = "raise"
    /\ last_call.exc = "ClientError"
    /\ Len(last_call.log_before) = 1
    /\ Len(client_log) = 2

-----------------------------------------------------------------------------
(* The prompt provider as a state machine: a directory tree, a provider on *)
(* /prompts and a key, then one lookup.                                    *)

MaxKeyLen == 2

KeyComponents == {"..", ".", "a.txt", "sub", "b.json", "secret"}
Keys ==
    [absolute : BOOLEAN,
     parts : UNION {[1..n -> KeyComponents] : n \in 0..MaxKeyLen}]

Dir == [kind |-> "dir", content |-> [json |-> "none", examples |-> <<>>]]
TextFile ==
    [kind |-> "file", content |-> [json |-> "invalid", examples |-> <<>>]]
ListFile ==
    [kind |-> "file",
     content |-> [json |-> "list",
                  examples |-> <<[user |-> <<"Q2">>, assistant |-> <<"A1">>]>>]]
ObjectFile ==
    [kind |-> "file", content |-> [json |-> "object", examples |-> <<>>]]

(* The trees: /prompts always, and any of /prompts/a.txt, /prompts/sub,    *)
(* /prompts/sub/b.json and /secret.                                        *)
Tree(a, sub, b, secret) ==
    LET paths == {<<"prompts">>}
                 \cup (IF a # Dir THEN {<<"prompts", "a.txt">>} ELSE {})
                 \cup (IF sub THEN {<<"prompts", "sub">>} ELSE {})
                 \cup (IF sub /\ b # Dir THEN {<<"prompts", "sub", "b.json">>} ELSE {})
                 \cup (IF secret THEN {<<"secret">>} ELSE {})
    IN [p \in paths |->
           CASE p = <<"prompts", "a.txt">> -> a
             [] p = <<"prompts", "sub", "b.json">> -> b
             [] p = <<"secret">> -> TextFile
             [] OTHER -> Dir]

Trees ==
    {Tree(a, sub, b, secret) :
        a \in {Dir, TextFile, ListFile}, sub \in BOOLEAN,
        b \in {Dir, ListFile, ObjectFile}, secret \in BOOLEAN}

PromptInit ==
    /\ fs \in Trees
    /\ base_path = <<"prompts">>
    /\ is_dir(fs, base_path)
    /\ key \in Keys
    /\ lookup = None
    /\ system_prompt = <<>>
    /\ user_input = <<>>
    /\ human_prompt_template = None
    /\ variables = None
    /\ few_shot_examples = None
    /\ built = None
    /\ client_log = <<>>
    /\ last_call = NoInterfaceCall
    /\ n_calls = 0
    /\ llm_providers = <<>>
    /\ installed = {}
    /\ validated_settings = <<>>
    /\ called = {}
    /\ last_create = NoCall
    /\ n_create = 0

(* A lookup and its outcome; path is the file _resolve_path returned and   *)
(* the lookup opened, None when _resolve_path raised.                      *)
Looked(op, out) ==
    [op |-> op, exc |-> out.exc, value |-> out.value, steps |-> out.steps,
     path |-> _resolve_path(fs, base_path, key).value]

GetTemplate ==
    /\ lookup = None
    /\ lookup' = Some(Looked("get_template", get_template(fs, base_path, key)))
    /\ UNCHANGED <<fs, base_path, key>>
    /\ UNCHANGED <<factory_vars, assembly_vars, interface_vars>>

AGetTemplate ==
    /\ lookup = None
    /\ lookup' = Some(Looked("aget_template", get_template(fs, base_path, key)))
    /\ UNCHANGED <<fs, base_path, key>>
    /\ UNCHANGED <<factory_vars, assembly_vars, interface_vars>>

GetFewShotExamples ==
    /\ lookup = None
    /\ lookup' = Some(Looked("get_few_shot_examples",
                             get_few_shot_examples(fs, base_path, key)))
    /\ UNCHANGED <<fs, base_path, key>>
    /\ UNCHANGED <<factory_vars, assembly_vars, interface_vars>>

AGetFewShotExamples ==
    /\ lookup = None
    /\ lookup' = Some(Looked("aget_few_shot_examples",
                             get_few_shot_examples(fs, base_path, key)))
    /\ UNCHANGED <<fs, base_path, key>>
    /\ UNCHANGED <<factory_vars, assembly_vars, interface_vars>>

PromptNext ==
    \/ GetTemplate
    \/ AGetTemplate
    \/ GetFewShotExamples
    \/ AGetFewShotExamples

SpecPrompts == PromptInit /\ [][PromptNext]_vars

-----------------------------------------------------------------------------
(* Properties of the prompt provider                                       *)

HasTraversal(k) == \E i \in 1..Len(k.parts) : k.parts[i] = ".."

(* The file a traversal-free key names: below the base, or from the root   *)
(* for a key that starts with "/".                                         *)
Target(k) ==
    LET names == SelectSeq(k.parts, LAMBDA c : c # ".") IN
    IF k.absolute THEN names ELSE base_path \o names

(* C9: every lookup with a key that has a ".." component raises ValueError *)
(* before the filesystem is consulted; every lookup with a traversal-free  *)
(* key whose path is missing or is not a regular file raises               *)
(* TemplateNotFoundError; neither returns content.                         *)
ThmC9 ==
    lookup # None =>
        /\ HasTraversal(key) =>
               /\ lookup[1].exc = "ValueError"
               /\ lookup[1].steps = <<>>
               /\ lookup[1].value = None
        /\ (~HasTraversal(key) /\
            (Target(key) \notin DOMAIN fs \/ fs[Target(key)].kind # "file")) =>
               /\ lookup[1].exc = "TemplateNotFoundError"
               /\ lookup[1].value = None

WitC9 ==
    /\ lookup # None
    /\ key = [absolute |-> FALSE, parts |-> <<"..", "secret">>]
    /\ <<"secret">> \in DOMAIN fs
    /\ lookup[1].op = "aget_few_shot_examples"
    /\ lookup[1].exc = "ValueError"

(* A path is under the root directory when the root's components are a     *)
(* proper prefix of its own.                                               *)
IsUnder(path, root) ==
    /\ Len(path) > Len(root)
    /\ SubSeq(path, 1, Len(root)) = root

(* C11: every lookup for which _resolve_path succeeds opened a file        *)
(* located under base_path; no accepted key, a key that starts with "/"    *)
(* included, reads a file outside the root directory.                      *)
CexC11 ==
    (lookup # None /\ lookup[1].path # None) =>
        IsUnder(lookup[1].path[1], base_path)

(* The same containment for the keys that do not start with "/": what the  *)
(* ".." check of prompts.py 53 does secure on a tree without symbolic      *)
(* links.                                                                  *)
RelativeKeysStayUnderBase ==
    (lookup # None /\ lookup[1].path # None /\ ~key.absolute) =>
        IsUnder(lookup[1].path[1], base_path)

(* An absolute key has been accepted and the file outside the root read.   *)
AbsoluteKeyReadsOutside ==
    /\ lookup # None
    /\ key = [absolute |-> TRUE, parts |-> <<"secret">>]
    /\ lookup[1].op = "get_template"
    /\ lookup[1].exc = "none"
    /\ lookup[1].path = Some(<<"secret">>)
    /\ lookup[1].value = Some(TextFile.content)

=============================================================================
